---------------------------- MODULE Spec2Model ----------------------------
(***************************************************************************)
(* Background estimation and subtraction of eureka's stage 3:              *)
(*   S3_data_reduction/background.py  BGsubtraction, fitbg, fitbg2         *)
(*   S3_data_reduction/nircam.py      fit_bg                               *)
(*                                                                         *)
(* Arrays are functions over 0-based index ranges, as in numpy.  Pixel     *)
(* values are integers; everything polyfit/polyval/median produce is an    *)
(* exact rational <<num, den>> (den > 0), and <<0, 0>> stands for NaN.     *)
(* The arithmetic is exact: rounding of IEEE doubles is not modelled.      *)
(***************************************************************************)
EXTENDS Integers, Sequences, FiniteSets, TLC

VARIABLES
    inp,      \* fitbg/fitbg2: the arguments of the call
    fit,      \* fitbg/fitbg2: the locals of the call
    meta,     \* BGsubtraction: ncpu, int_start, n_int, bg_y1, bg_y2, bg_deg, p3thresh
    faulty,   \* the integrations whose frame makes the fit raise
    cube,     \* data.subdata and data.submask as passed in
    data,     \* the data object: subdata, submask, subbg
    pc,       \* BGsubtraction: position of the calling thread
    n,        \* BGsubtraction: the loop variable
    jobs,     \* the ApplyResult of each apply_async, by integration
    outqueue, \* results the workers have put and the pool has not handled yet
    handling, \* the job whose result the pool's result thread is handling
    exc,      \* the exception BGsubtraction raised
    written   \* the integrations writeBG has written, in the order of the writes

fitvars == <<inp, fit>>

bgvars == <<meta, faulty, cube, data, pc, n, jobs, outqueue, handling, exc, written>>

vars == <<inp, fit, meta, faulty, cube, data, pc, n, jobs, outqueue, handling, exc, written>>

---------------------------------------------------------------------------
(* Integer and rational helpers *)

Abs(x) == IF x < 0 THEN -x ELSE x

RECURSIVE GCD(_, _)
GCD(a, b) == IF b = 0 THEN a ELSE GCD(b, a % b)

NaN == <<0, 0>>

IsNaN(q) == q[2] = 0

\* the rational n/d in lowest terms with a positive denominator; x/0 is NaN
Rat(num, d) ==
    IF d = 0 THEN NaN
    ELSE LET g == GCD(Abs(num), Abs(d))
             s == IF d < 0 THEN -1 ELSE 1
         IN  <<(s * num) \div g, (s * d) \div g>>

RatInt(v) == <<v, 1>>

RatSub(p, q) ==
    IF IsNaN(p) \/ IsNaN(q) THEN NaN
    ELSE Rat(p[1] * q[2] - q[1] * p[2], p[2] * q[2])

RECURSIVE SumSeq(_)
SumSeq(s) == IF s = <<>> THEN 0 ELSE Head(s) + SumSeq(Tail(s))

\* range(a, b) of Python as a sequence
RangeSeq(a, b) == IF b > a THEN [i \in 1..(b - a) |-> a + i - 1] ELSE <<>>

---------------------------------------------------------------------------
(* numpy array helpers *)

NRows(f) == Cardinality(DOMAIN f)

NCols(f) == Cardinality(DOMAIN f[0])

Zeros(ny, nx) == [r \in 0..(ny - 1) |-> [c \in 0..(nx - 1) |-> RatInt(0)]]

\* f.T
Transpose(f) ==
    [c \in 0..(NCols(f) - 1) |-> [r \in 0..(NRows(f) - 1) |-> f[r][c]]]

\* f[::-1]
FlipRows(f) == [r \in DOMAIN f |-> f[NRows(f) - 1 - r]]

\* rotation applied on entry: 1 is f[::-1].T, 2 is f.T, anything else nothing
RotIn(f, isrotate) ==
    IF isrotate = 1 THEN Transpose(FlipRows(f))
    ELSE IF isrotate = 2 THEN Transpose(f)
    ELSE f

\* rotation applied before return: 1 is (f.T)[::-1], 2 is f.T
RotOut(f, isrotate) ==
    IF isrotate = 1 THEN FlipRows(Transpose(f))
    ELSE IF isrotate = 2 THEN Transpose(f)
    ELSE f

\* np.sum(m[j, a:b]) of a boolean row, the slice clipped to the row as numpy does
SumSlice(row, a, b) ==
    Cardinality({c \in DOMAIN row : c >= a /\ c < b /\ row[c]})

\* the k-th smallest (k = 1..Len) element of a sequence of integers
KthSmallest(s, k) ==
    CHOOSE v \in {s[i] : i \in 1..Len(s)} :
        /\ Cardinality({i \in 1..Len(s) : s[i] < v}) < k
        /\ Cardinality({i \in 1..Len(s) : s[i] <= v}) >= k

\* np.median of a sequence of integers; NaN for the empty sequence
Median(s) ==
    IF Len(s) = 0 THEN NaN
    ELSE IF Len(s) % 2 = 1 THEN RatInt(KthSmallest(s, (Len(s) + 1) \div 2))
    ELSE Rat(KthSmallest(s, Len(s) \div 2) + KthSmallest(s, Len(s) \div 2 + 1), 2)

\* subdata[np.where(submask)] of the deg < 0 branch: the values of the pixels
\* that are good in mask and lie in columns [0, a) or [b + 1, nx), row by row
RECURSIVE GoodOutOfRegionFrom(_, _, _, _, _, _)
GoodOutOfRegionFrom(dataim, mask, a, b, r, c) ==
    IF r >= NRows(dataim) THEN <<>>
    ELSE IF c >= NCols(dataim) THEN GoodOutOfRegionFrom(dataim, mask, a, b, r + 1, 0)
    ELSE (IF (c < a \/ c > b) /\ mask[r][c] THEN <<dataim[r][c]>> ELSE <<>>)
         \o GoodOutOfRegionFrom(dataim, mask, a, b, r, c + 1)

\* faulty variant: the pooled pixels are not filtered by the mask
GoodOutOfRegion_nomask(dataim, mask, a, b) ==
    GoodOutOfRegionFrom(dataim, [r \in DOMAIN mask |-> [c \in DOMAIN mask[r] |-> TRUE]],
                        a, b, 0, 0)

GoodOutOfRegion(dataim, mask, a, b) == GoodOutOfRegionFrom(dataim, mask, a, b, 0, 0)

---------------------------------------------------------------------------
(* np.polyfit / np.polyval for degree 0 and 1, exact.                      *)
(* A polynomial is [a, b, den]: p(x) = (a*x + b) / den.                    *)

\* np.polyfit(xs, ys, deg), least squares.  Degree 1 through one point is
\* rank deficient: lstsq returns the minimum-norm solution of the column-scaled
\* system, (y/(2x)) * x + y/2, and NaN when x = 0 (the scale of the column is 0)
polyfit(xs, ys, d) ==
    LET L   == Len(xs)
        Sx  == SumSeq(xs)
        Sy  == SumSeq(ys)
        Sxx == SumSeq([i \in 1..L |-> xs[i] * xs[i]])
        Sxy == SumSeq([i \in 1..L |-> xs[i] * ys[i]])
    IN  IF d = 0 THEN [a |-> 0, b |-> Sy, den |-> L]
        ELSE IF L = 1 THEN [a |-> ys[1], b |-> ys[1] * xs[1], den |-> 2 * xs[1]]
        ELSE [a   |-> L * Sxy - Sx * Sy,
              b   |-> Sy * Sxx - Sx * Sxy,
              den |-> L * Sxx - Sx * Sx]

\* faulty variant: the coefficients are read lowest power first
polyval_lowfirst(p, x) == Rat(p.b * x + p.a, p.den)

\* np.polyval(coeffs, x)
polyval(p, x) == Rat(p.a * x + p.b, p.den)

\* dataslice - np.polyval(coeffs, goodxvals), every residual multiplied by den
Residuals(p, xs, ys) == [i \in 1..Len(xs) |-> p.den * ys[i] - (p.a * xs[i] + p.b)]

\* faulty variant: argmin in place of argmax
ArgMaxAbs_argmin(r) ==
    CHOOSE i \in 1..Len(r) :
        /\ \A k \in 1..Len(r) : Abs(r[k]) >= Abs(r[i])
        /\ \A k \in 1..(i - 1) : Abs(r[k]) > Abs(r[i])

\* np.argmax(np.abs(r)) as a 1-based position: the first maximum
ArgMaxAbs(r) ==
    CHOOSE i \in 1..Len(r) :
        /\ \A k \in 1..Len(r) : Abs(r[k]) <= Abs(r[i])
        /\ \A k \in 1..(i - 1) : Abs(r[k]) < Abs(r[i])

---------------------------------------------------------------------------
(* The rejection test of one loop iteration.                               *)
(* Both return [reject |-> BOOLEAN, loc |-> 1-based position in goodxvals] *)

\* faulty variant: the NaN spread of a single residual is taken to exceed the threshold
fitbg_worst_nan(r, threshold) ==
    LET L   == Len(r)
        D   == SumSeq([i \in 1..(L - 1) |-> Abs(r[i + 1] - r[i])])
    IN  IF L = 1 THEN [reject |-> TRUE, loc |-> 1]
        ELSE IF D = 0 THEN [reject |-> 0 > threshold, loc |-> 1]
        ELSE [reject |-> Abs(r[ArgMaxAbs(r)]) * (L - 1) > threshold * D,
              loc |-> ArgMaxAbs(r)]

\* fitbg: stdres = mean(|ediff1d(residuals)|); 0 becomes inf; one residual gives
\* the mean of an empty array, NaN, and no comparison with NaN is true.
\* r holds the residuals times den > 0, which cancels in residuals / stdres.
fitbg_worst(r, threshold) ==
    LET L   == Len(r)
        D   == SumSeq([i \in 1..(L - 1) |-> Abs(r[i + 1] - r[i])])
        loc == ArgMaxAbs(r)
    IN  IF L = 1 THEN [reject |-> FALSE, loc |-> 1]
        ELSE IF D = 0 THEN [reject |-> 0 > threshold, loc |-> 1]
        ELSE [reject |-> Abs(r[loc]) * (L - 1) > threshold * D, loc |-> loc]

\* faulty variant: a zero spread is not replaced by infinity, so a nonzero worst
\* residual divided by it is infinite and exceeds every threshold
fitbg2_worst_unguarded(r, threshold) ==
    LET L   == Len(r)
        loc == ArgMaxAbs(r)
        oth == [i \in 1..(L - 1) |-> IF i < loc THEN r[i] ELSE r[i + 1]]
        m   == L - 1
        V   == m * SumSeq([i \in 1..m |-> oth[i] * oth[i]]) - SumSeq(oth) * SumSeq(oth)
    IN  IF L = 1 THEN [reject |-> FALSE, loc |-> 1]
        ELSE IF V = 0 THEN [reject |-> r[loc] # 0, loc |-> loc]
        ELSE [reject |-> \/ threshold < 0
                         \/ r[loc] * r[loc] * m * m > threshold * threshold * V,
              loc |-> loc]

\* fitbg2: loc = argmax |residuals|, stdres = np.std of the other residuals;
\* 0 becomes inf; np.std of an empty array is NaN.
\* With m = L - 1 others, m^2 * var = m * sum(r^2) - sum(r)^2 = V, so
\* |r[loc]| / std > threshold is r[loc]^2 * m^2 > threshold^2 * V for threshold >= 0
fitbg2_worst(r, threshold) ==
    LET L   == Len(r)
        loc == ArgMaxAbs(r)
        oth == [i \in 1..(L - 1) |-> IF i < loc THEN r[i] ELSE r[i + 1]]
        m   == L - 1
        V   == m * SumSeq([i \in 1..m |-> oth[i] * oth[i]]) - SumSeq(oth) * SumSeq(oth)
    IN  IF L = 1 THEN [reject |-> FALSE, loc |-> 1]
        ELSE IF V = 0 THEN [reject |-> 0 > threshold, loc |-> loc]
        ELSE [reject |-> \/ threshold < 0
                         \/ r[loc] * r[loc] * m * m > threshold * threshold * V,
              loc |-> loc]

---------------------------------------------------------------------------
(* fitbg(dataim, meta, mask, x1, x2, deg, threshold, isrotate) and         *)
(* fitbg2(dataim, meta, mask, bgmask, deg, threshold, isrotate).           *)
(*                                                                         *)
(* a is the call's arguments: deg is <<>> for None and <<d>> for the       *)
(* integer d; x1 and x2 are [scalar |-> BOOLEAN, v |-> array], a scalar    *)
(* being the one-element array.  f is the function's frame of locals; pc   *)
(* is the position in the body and ret what the call produced: "ok" (the   *)
(* tuple), "None" (the bare return of the except branch) or the name of    *)
(* the exception raised.  iters counts the passes of the while loop of     *)
(* the current row.                                                        *)

\* the locals on entry of either function
FitCall(a) ==
    [pc |-> "call", ret |-> "", dataim |-> a.dataim, mask |-> a.mask,
     bgmask |-> a.bgmask, x1 |-> a.x1.v, x2 |-> a.x2.v,
     bg |-> Zeros(NRows(a.dataim), NCols(a.dataim)),
     j |-> 0, xvals |-> <<>>, degj |-> 0, goodxvals |-> <<>>, coeffs |-> <<>>,
     nobadpixels |-> FALSE, iters |-> 0]

\* np.zeros(ny, dtype=int) + x for an int x; an array is used as it is
Broadcast(x, ny) == IF x.scalar THEN [r \in 0..(ny - 1) |-> x.v[0]] ELSE x.v

\* lines 158-184: rotate, broadcast x1 and x2, branch on deg.
\* None < 0 raises TypeError, so the deg == None branch is never taken
fitbg_enter(a, f) ==
    LET d  == RotIn(a.dataim, a.isrotate)
        m  == RotIn(a.mask, a.isrotate)
        ny == NRows(d)
        nx == NCols(d)
        x1 == Broadcast(a.x1, ny)
        x2 == Broadcast(a.x2, ny)
        g  == [f EXCEPT !.dataim = d, !.mask = m, !.x1 = x1, !.x2 = x2,
                        !.bg = Zeros(ny, nx)]
    IN  IF a.deg = <<>> THEN [g EXCEPT !.pc = "done", !.ret = "TypeError"]
        ELSE IF a.deg[1] < 0
        THEN LET med == Median(GoodOutOfRegion(d, m, x1[0], x2[0]))
             IN  [g EXCEPT !.pc = "ret",
                           !.bg = [r \in 0..(ny - 1) |-> [c \in 0..(nx - 1) |-> med]]]
        ELSE [g EXCEPT !.pc = "row", !.j = 0]

\* lines 187-192: the candidate columns of row j and the degree of its fit
fitbg_rowstart(a, f) ==
    LET nx == NCols(f.dataim)
        j  == f.j
        few == \/ SumSlice(f.mask[j], 0, f.x1[j]) < a.deg[1]
               \/ SumSlice(f.mask[j], f.x2[j] + 1, nx) < a.deg[1]
    IN  [f EXCEPT !.pc = "loop", !.nobadpixels = FALSE, !.iters = 0,
                  !.xvals = RangeSeq(0, f.x1[j]) \o RangeSeq(f.x2[j] + 1, nx),
                  !.degj = IF few THEN 0 ELSE a.deg[1]]

\* one pass of the while loop, given the rejection test of the function;
\* the rejected pixel is cleared in the array named by which
LoopPass(f, w, which) ==
    LET j    == f.j
        arr  == IF which = "mask" THEN f.mask ELSE f.bgmask
        good == SelectSeq(f.xvals, LAMBDA c : arr[j][c])
        ys   == [i \in 1..Len(good) |-> f.dataim[j][good[i]]]
        g    == [f EXCEPT !.goodxvals = good, !.iters = @ + 1]
    IN  IF Len(good) = 0
        THEN [g EXCEPT !.nobadpixels = TRUE, !.pc = "rowend"]
        ELSE LET h == [g EXCEPT !.coeffs = <<polyfit(good, ys, f.degj)>>]
             IN  IF w.reject
                 THEN IF which = "mask"
                      THEN [h EXCEPT !.mask[j][good[w.loc]] = FALSE]
                      ELSE [h EXCEPT !.bgmask[j][good[w.loc]] = FALSE]
                 ELSE [h EXCEPT !.nobadpixels = TRUE, !.pc = "rowend"]

\* the residuals of the fit to the good candidates of row j in arr, times den
RowResiduals(f, arr) ==
    LET good == SelectSeq(f.xvals, LAMBDA c : arr[f.j][c])
        ys   == [i \in 1..Len(good) |-> f.dataim[f.j][good[i]]]
    IN  Residuals(polyfit(good, ys, f.degj), good, ys)

\* lines 193-229: mask[j, xvals] raises IndexError when a candidate column lies
\* outside the row; the except branch returns None from the whole function
fitbg_iter(a, f) ==
    LET nx == NCols(f.dataim)
    IN  IF \E i \in 1..Len(f.xvals) : f.xvals[i] >= nx \/ f.xvals[i] < -nx
        THEN [f EXCEPT !.pc = "done", !.ret = "None", !.iters = @ + 1]
        ELSE LET good == SelectSeq(f.xvals, LAMBDA c : f.mask[f.j][c])
                 w == IF Len(good) = 0 THEN [reject |-> FALSE, loc |-> 1]
                      ELSE fitbg_worst(RowResiduals(f, f.mask), a.threshold)
             IN  LoopPass(f, w, "mask")

\* lines 231-233 and 382-384: the row of the surface, written only when the
\* loop ended with good candidates; then the next row or the end of the loop
RowEnd(f) ==
    LET nx == NCols(f.dataim)
        ny == NRows(f.dataim)
        g  == IF Len(f.goodxvals) # 0
              THEN [f EXCEPT !.bg[f.j] = [c \in 0..(nx - 1) |-> polyval(f.coeffs[1], c)]]
              ELSE f
    IN  [g EXCEPT !.j = @ + 1, !.pc = IF f.j + 1 < ny THEN "row" ELSE "ret"]

\* lines 243-250: rotate back and return (bg, mask)
fitbg_return(a, f) ==
    [f EXCEPT !.pc = "done", !.ret = "ok",
              !.bg = RotOut(f.bg, a.isrotate), !.mask = RotOut(f.mask, a.isrotate)]

\* lines 290-312: rotate, zero surface, branch on deg.  None < 0 raises
\* TypeError; deg < 0 reads mask2, a name that is never bound: NameError
fitbg2_enter(a, f) ==
    LET d  == RotIn(a.dataim, a.isrotate)
        g  == [f EXCEPT !.dataim = d, !.mask = RotIn(a.mask, a.isrotate),
                        !.bgmask = RotIn(a.bgmask, a.isrotate),
                        !.bg = Zeros(NRows(d), NCols(d))]
    IN  IF a.deg = <<>> THEN [g EXCEPT !.pc = "done", !.ret = "TypeError"]
        ELSE IF a.deg[1] < 0 THEN [g EXCEPT !.pc = "done", !.ret = "NameError"]
        ELSE [g EXCEPT !.pc = "row", !.j = 0]

\* lines 315-320: the candidate columns are those set in bgmask[j]
fitbg2_rowstart(a, f) ==
    LET nx  == NCols(f.dataim)
        j   == f.j
        few == \/ SumSlice(f.bgmask[j], 0, nx \div 2) < a.deg[1]
               \/ SumSlice(f.bgmask[j], nx \div 2, nx) < a.deg[1]
    IN  [f EXCEPT !.pc = "loop", !.nobadpixels = FALSE, !.iters = 0,
                  !.xvals = SelectSeq(RangeSeq(0, nx), LAMBDA c : f.bgmask[j][c]),
                  !.degj = IF few THEN 0 ELSE a.deg[1]]

\* lines 321-371
fitbg2_iter(a, f) ==
    LET good == SelectSeq(f.xvals, LAMBDA c : f.bgmask[f.j][c])
        w == IF Len(good) = 0 THEN [reject |-> FALSE, loc |-> 1]
             ELSE fitbg2_worst(RowResiduals(f, f.bgmask), a.threshold)
    IN  LoopPass(f, w, "bgmask")

\* lines 387-396: rotate back and return (bg, bgmask)
fitbg2_return(a, f) ==
    [f EXCEPT !.pc = "done", !.ret = "ok",
              !.bg = RotOut(f.bg, a.isrotate), !.mask = RotOut(f.mask, a.isrotate),
              !.bgmask = RotOut(f.bgmask, a.isrotate)]

\* one step of a call
FitStep(a, f) ==
    IF a.fn = "fitbg"
    THEN CASE f.pc = "call"   -> fitbg_enter(a, f)
           [] f.pc = "row"    -> fitbg_rowstart(a, f)
           [] f.pc = "loop"   -> fitbg_iter(a, f)
           [] f.pc = "rowend" -> RowEnd(f)
           [] f.pc = "ret"    -> fitbg_return(a, f)
    ELSE CASE f.pc = "call"   -> fitbg2_enter(a, f)
           [] f.pc = "row"    -> fitbg2_rowstart(a, f)
           [] f.pc = "loop"   -> fitbg2_iter(a, f)
           [] f.pc = "rowend" -> RowEnd(f)
           [] f.pc = "ret"    -> fitbg2_return(a, f)

\* a call run to its end
RECURSIVE FitRun(_, _)
FitRun(a, f) == IF f.pc = "done" THEN f ELSE FitRun(a, FitStep(a, f))

\* the frame of locals when fitbg(...) has returned or raised
fitbg(dataim, mask, x1, x2, deg, threshold, isrotate) ==
    LET a == [fn |-> "fitbg", dataim |-> dataim, mask |-> mask, bgmask |-> mask,
              x1 |-> x1, x2 |-> x2, deg |-> deg, threshold |-> threshold,
              isrotate |-> isrotate]
    IN  FitRun(a, FitCall(a))

---------------------------------------------------------------------------
(* The calls checked: every frame of the bounded shape, in each orientation *)

\* rows and columns of the frame as the fit sees it (after the rotation)
NY == 2
NX == 4
\* at most this many pixels of a frame differ from the floor value 0, and at
\* most this many pixels of the primary mask are bad on entry
MaxHot == 1
MaxBad == 1

PixelValues == {0, 1}

Orientations == {0, 1, 2}

\* the shape of the caller's array whose rotation is NY x NX
InRows(isrotate) == IF isrotate \in {1, 2} THEN NX ELSE NY
InCols(isrotate) == IF isrotate \in {1, 2} THEN NY ELSE NX

Pixels(h, w) == (0..(h - 1)) \X (0..(w - 1))

DataFrames(h, w) ==
    {[r \in 0..(h - 1) |-> [c \in 0..(w - 1) |-> IF <<r, c>> \in hot THEN 1 ELSE 0]] :
        hot \in {S \in SUBSET Pixels(h, w) : Cardinality(S) <= MaxHot}}

MaskFrames(h, w) ==
    {[r \in 0..(h - 1) |-> [c \in 0..(w - 1) |-> <<r, c>> \notin bad]] :
        bad \in {S \in SUBSET Pixels(h, w) : Cardinality(S) <= MaxBad}}

BgMaskFrames(h, w) ==
    {[r \in 0..(h - 1) |-> [c \in 0..(w - 1) |-> <<r, c>> \in on]] :
        on \in SUBSET Pixels(h, w)}

Scalar(x) == [scalar |-> TRUE, v |-> [i \in 0..0 |-> x]]
Array(v) == [scalar |-> FALSE, v |-> v]

\* boundaries within the contract 0 <= x1 <= x2 < nx
Bounds(nx) == {p \in (0..(nx - 1)) \X (0..(nx - 1)) : p[1] <= p[2]}

\* the boundaries a per-row array draws from: a strip on each side, a strip
\* on the right only, and a region that leaves no candidate column
RowBounds(nx) == {<<1, nx - 2>>, <<0, nx - 2>>, <<0, nx - 1>>}

\* x1, x2 as scalars (in contract, or x1 beyond the row), or as per-row arrays
Regions(ny, nx) ==
    {[x1 |-> Scalar(p[1]), x2 |-> Scalar(p[2])] : p \in Bounds(nx) \cup {<<nx + 1, nx + 1>>}}
    \cup {[x1 |-> Array([r \in 0..(ny - 1) |-> q[r][1]]),
           x2 |-> Array([r \in 0..(ny - 1) |-> q[r][2]])] :
            q \in [0..(ny - 1) -> RowBounds(nx)]}

\* deg and threshold; degree 1 with a negative threshold is left out: it fits a
\* line through a single point, where lstsq's answer depends on the LAPACK build
DegThresholds ==
    {<<<<>>, 0>>, <<<<-1>>, 0>>, <<<<0>>, -1>>, <<<<0>>, 0>>, <<<<0>>, 1>>,
     <<<<1>>, 0>>, <<<<1>>, 1>>}

\* the 5 x 10 frame of 100s with 1000 at (row 2, col 1), all good, x1 = 3,
\* x2 = 6, degree 0, threshold 3, no rotation
OutlierScenario ==
    [fn |-> "fitbg",
     dataim |-> [r \in 0..4 |-> [c \in 0..9 |-> IF r = 2 /\ c = 1 THEN 1000 ELSE 100]],
     mask |-> [r \in 0..4 |-> [c \in 0..9 |-> TRUE]],
     bgmask |-> [r \in 0..4 |-> [c \in 0..9 |-> TRUE]],
     x1 |-> Scalar(3), x2 |-> Scalar(6), deg |-> <<0>>, threshold |-> 3, isrotate |-> 0]

\* degree -1 on a row whose out-of-region pixels are 10, 10, 10, 90, all good
MedianScenario ==
    [fn |-> "fitbg",
     dataim |-> [r \in 0..0 |-> [c \in 0..5 |->
                   IF c \in {2, 3} THEN 500 ELSE IF c = 5 THEN 90 ELSE 10]],
     mask |-> [r \in 0..0 |-> [c \in 0..5 |-> TRUE]],
     bgmask |-> [r \in 0..0 |-> [c \in 0..5 |-> TRUE]],
     x1 |-> Scalar(2), x2 |-> Scalar(3), deg |-> <<-1>>, threshold |-> 5, isrotate |-> 0]

FitInit ==
    /\ \/ inp \in {OutlierScenario, MedianScenario}
       \/ \E rot \in Orientations, dt \in DegThresholds :
             \E d \in DataFrames(InRows(rot), InCols(rot)) :
                \/ \E m \in MaskFrames(InRows(rot), InCols(rot)),
                      reg \in Regions(NY, NX) :
                      inp = [fn |-> "fitbg", dataim |-> d, mask |-> m, bgmask |-> m,
                             x1 |-> reg.x1, x2 |-> reg.x2, deg |-> dt[1],
                             threshold |-> dt[2], isrotate |-> rot]
                \/ \E b \in BgMaskFrames(InRows(rot), InCols(rot)) :
                      inp = [fn |-> "fitbg2", dataim |-> d,
                             mask |-> [r \in 0..(InRows(rot) - 1) |->
                                         [c \in 0..(InCols(rot) - 1) |-> r # 0 \/ c # 0]],
                             bgmask |-> b, x1 |-> Scalar(0), x2 |-> Scalar(0),
                             deg |-> dt[1], threshold |-> dt[2], isrotate |-> rot]
    /\ fit = FitCall(inp)

Fitbg_Enter ==
    /\ inp.fn = "fitbg" /\ fit.pc = "call"
    /\ fit' = fitbg_enter(inp, fit)
    /\ UNCHANGED <<inp, bgvars>>

Fitbg_RowStart ==
    /\ inp.fn = "fitbg" /\ fit.pc = "row"
    /\ fit' = fitbg_rowstart(inp, fit)
    /\ UNCHANGED <<inp, bgvars>>

Fitbg_Iter ==
    /\ inp.fn = "fitbg" /\ fit.pc = "loop"
    /\ fit' = fitbg_iter(inp, fit)
    /\ UNCHANGED <<inp, bgvars>>

Fitbg_RowEnd ==
    /\ inp.fn = "fitbg" /\ fit.pc = "rowend"
    /\ fit' = RowEnd(fit)
    /\ UNCHANGED <<inp, bgvars>>

Fitbg_Return ==
    /\ inp.fn = "fitbg" /\ fit.pc = "ret"
    /\ fit' = fitbg_return(inp, fit)
    /\ UNCHANGED <<inp, bgvars>>

Fitbg2_Enter ==
    /\ inp.fn = "fitbg2" /\ fit.pc = "call"
    /\ fit' = fitbg2_enter(inp, fit)
    /\ UNCHANGED <<inp, bgvars>>

Fitbg2_RowStart ==
    /\ inp.fn = "fitbg2" /\ fit.pc = "row"
    /\ fit' = fitbg2_rowstart(inp, fit)
    /\ UNCHANGED <<inp, bgvars>>

Fitbg2_Iter ==
    /\ inp.fn = "fitbg2" /\ fit.pc = "loop"
    /\ fit' = fitbg2_iter(inp, fit)
    /\ UNCHANGED <<inp, bgvars>>

Fitbg2_RowEnd ==
    /\ inp.fn = "fitbg2" /\ fit.pc = "rowend"
    /\ fit' = RowEnd(fit)
    /\ UNCHANGED <<inp, bgvars>>

Fitbg2_Return ==
    /\ inp.fn = "fitbg2" /\ fit.pc = "ret"
    /\ fit' = fitbg2_return(inp, fit)
    /\ UNCHANGED <<inp, bgvars>>

FitNext ==
    \/ Fitbg_Enter \/ Fitbg_RowStart \/ Fitbg_Iter \/ Fitbg_RowEnd \/ Fitbg_Return
    \/ Fitbg2_Enter \/ Fitbg2_RowStart \/ Fitbg2_Iter \/ Fitbg2_RowEnd \/ Fitbg2_Return

---------------------------------------------------------------------------
(* BGsubtraction(data, meta, log, isplots) for meta.inst = 'nircam'.       *)
(*                                                                         *)
(* With ncpu > 1 the fits run in a multiprocessing.Pool: apply_async       *)
(* pickles the arguments and queues the task, at most ncpu workers run     *)
(* tasks, taken in the order queued; a worker puts its result, or the      *)
(* exception the task raised, on the pool's result queue; the pool's one   *)
(* result thread takes the results in the order put, calls the callback    *)
(* for a result that is not an exception and then sets the job's event;    *)
(* job.get() waits for the event and returns the value or raises the       *)
(* exception.                                                              *)

\* integrations of the cube
NInt == 3
\* meta.ncpu ranges over 1..MaxCpu
MaxCpu == 2

Ints == 0..(NInt - 1)

\* an exception: its type and the integration it names, <<>> for none
Exception(type) == [type |-> type, n |-> <<>>]

NoException == [type |-> "", n |-> <<>>]

\* the frame of pixel values as integers (the cube holds them as rationals,
\* as data.subdata holds floats)
IntFrame(f) == [r \in DOMAIN f |-> [c \in DOMAIN f[r] |-> f[r][c][1]]]

RatFrame(f) == [r \in DOMAIN f |-> [c \in DOMAIN f[r] |-> RatInt(f[r][c])]]

\* nircam.fit_bg(dataim, datamask, n, meta, isplots): the tuple (bg, mask, n),
\* or the exception raised: unpacking the None of fitbg's early return is a
\* TypeError, and an exception of fitbg propagates.  The frame of a faulty
\* integration makes np.polyfit raise.  No exception carries n.
fit_bg(dataim, datamask, k) ==
    LET r == fitbg(IntFrame(dataim), datamask, Scalar(meta.bg_y1), Scalar(meta.bg_y2),
                   meta.bg_deg, meta.p3thresh, 2)
        failed(type) == [ok |-> FALSE, bg |-> dataim, mask |-> datamask, n |-> k,
                         exc |-> Exception(type)]
    IN  IF r.ret = "TypeError" THEN failed("TypeError")
        ELSE IF r.ret = "None" THEN failed("TypeError")
        ELSE IF k \in faulty /\ meta.bg_deg[1] >= 0 THEN failed("LinAlgError")
        ELSE [ok |-> TRUE, bg |-> r.bg, mask |-> r.mask, n |-> k, exc |-> NoException]

\* faulty variant: the result is stored in the next free slot, in the order of arrival
writeBG_by_arrival(dat, arg) ==
    [dat EXCEPT !.subbg[meta.int_start + Len(written)] = arg.bg,
                !.submask[meta.int_start + Len(written)] = arg.mask]

\* writeBG(arg): bg_data, bg_mask, n = arg; data.subbg[n], data.submask[n] = ...
writeBG(dat, arg) ==
    [dat EXCEPT !.subbg[arg.n] = arg.bg, !.submask[arg.n] = arg.mask]

\* line 96: the arguments apply_async is given for integration k
JobArgs(dat, k) == [dataim |-> dat.subdata[k], datamask |-> dat.submask[k], n |-> k]

\* faulty variant: job.get() returns as soon as the job is submitted
GetReturns_nowait(job) == job.st # "none"

\* line 102: job.get() returns, or raises, once the job's event is set
GetReturns(job) == job.st = "ready"

\* line 106: data.subdata -= data.subbg
Subtracted(dat) ==
    [dat EXCEPT !.subdata =
        [k \in DOMAIN dat.subdata |->
            [r \in DOMAIN dat.subdata[k] |->
                [c \in DOMAIN dat.subdata[k][r] |->
                    RatSub(dat.subdata[k][r][c], dat.subbg[k][r][c])]]]]

NoJob == [st |-> "none", args |-> <<>>, res |-> <<>>]

\* the two frames of the cubes checked: flat, and flat with one pixel raised
CubeFrames ==
    {RatFrame([r \in 0..(NX - 1) |-> [c \in 0..(NY - 1) |->
                 IF r = h /\ c = 0 THEN 1 ELSE 0]]) : h \in {0, NX}}

AllGood(h, w) == [r \in 0..(h - 1) |-> [c \in 0..(w - 1) |-> TRUE]]

\* the variables of BGsubtraction while only fitbg or fitbg2 is looked at
BGIdle ==
    /\ meta = [ncpu |-> 1, int_start |-> 0, n_int |-> 0, bg_y1 |-> 0, bg_y2 |-> 0,
               bg_deg |-> <<0>>, p3thresh |-> 0]
    /\ faulty = {}
    /\ cube = <<>>
    /\ data = <<>>
    /\ pc = "idle"
    /\ n = 0
    /\ jobs = <<>>
    /\ outqueue = <<>>
    /\ handling = <<>>
    /\ exc = NoException
    /\ written = <<>>

\* the variables of fitbg while BGsubtraction is looked at
FitIdle ==
    /\ inp = MedianScenario
    /\ fit = [FitCall(inp) EXCEPT !.pc = "idle"]

BGInit ==
    /\ \E ncpu \in 1..MaxCpu, start \in {0, 1},
          dt \in {<<<<0>>, 0>>, <<<<0>>, 1>>, <<<<-1>>, 0>>},
          y \in {<<1, NX - 2>>, <<NX + 1, NX + 1>>} :
          meta = [ncpu |-> ncpu, int_start |-> start, n_int |-> NInt,
                  bg_y1 |-> y[1], bg_y2 |-> y[2], bg_deg |-> dt[1], p3thresh |-> dt[2]]
    /\ faulty \in {S \in SUBSET Ints : Cardinality(S) <= 1}
    /\ \E sub \in [Ints -> CubeFrames] :
          cube = [subdata |-> sub, submask |-> [k \in Ints |-> AllGood(NX, NY)]]
    /\ data = [subdata |-> cube.subdata, submask |-> cube.submask,
               subbg |-> cube.subdata]
    /\ pc = "start"
    /\ n = 0
    /\ jobs = [k \in Ints |-> NoJob]
    /\ outqueue = <<>>
    /\ handling = <<>>
    /\ exc = NoException
    /\ written = <<>>

\* lines 70-72: data.subbg = np.zeros(data.subdata.shape), then the branch on ncpu
BG_Start ==
    /\ pc = "start"
    /\ data' = [data EXCEPT !.subbg = [k \in Ints |-> Zeros(NX, NY)]]
    /\ n' = meta.int_start
    /\ pc' = IF meta.int_start >= meta.n_int THEN "subtract"
             ELSE IF meta.ncpu = 1 THEN "serial" ELSE "submit"
    /\ UNCHANGED <<inp, fit, meta, faulty, cube, jobs, outqueue, handling, exc, written>>

\* lines 77-84: one pass of the serial loop, writeBG(inst.fit_bg(...)), on the
\* data object dat: the data object after it, or the exception raised
SerialPass(dat, k) ==
    LET res == fit_bg(dat.subdata[k], dat.submask[k], k)
    IN  IF res.ok THEN [ok |-> TRUE, dat |-> writeBG(dat, res), exc |-> NoException]
        ELSE [ok |-> FALSE, dat |-> dat, exc |-> res.exc]

BG_SerialStep ==
    /\ pc = "serial"
    /\ LET r == SerialPass(data, n)
       IN  IF r.ok
           THEN /\ data' = r.dat
                /\ written' = Append(written, n)
                /\ n' = n + 1
                /\ pc' = IF n + 1 < meta.n_int THEN "serial" ELSE "subtract"
                /\ exc' = exc
           ELSE /\ pc' = "raised"
                /\ exc' = r.exc
                /\ UNCHANGED <<data, written, n>>
    /\ UNCHANGED <<inp, fit, meta, faulty, cube, jobs, outqueue, handling>>

\* line 96: one apply_async of the list comprehension
BG_Submit ==
    /\ pc = "submit"
    /\ jobs' = [jobs EXCEPT ![n] = [st |-> "queued", args |-> <<JobArgs(data, n)>>,
                                    res |-> <<>>]]
    /\ n' = n + 1
    /\ pc' = IF n + 1 < meta.n_int THEN "submit" ELSE "close"
    /\ UNCHANGED <<inp, fit, meta, faulty, cube, data, outqueue, handling, exc, written>>

\* line 97: pool.close(); the loop over the jobs starts
BG_Close ==
    /\ pc = "close"
    /\ pc' = "collect"
    /\ n' = meta.int_start
    /\ UNCHANGED <<inp, fit, meta, faulty, cube, data, jobs, outqueue, handling, exc, written>>

\* a free worker takes the task queued first
Pool_WorkerStart ==
    /\ Cardinality({k \in Ints : jobs[k].st = "running"}) < meta.ncpu
    /\ \E k \in Ints :
          /\ jobs[k].st = "queued"
          /\ \A i \in Ints : jobs[i].st = "queued" => k <= i
          /\ jobs' = [jobs EXCEPT ![k].st = "running"]
    /\ UNCHANGED <<inp, fit, meta, faulty, cube, data, pc, n, outqueue, handling, exc, written>>

\* a worker ends inst.fit_bg on its copy of the arguments and puts the result
Pool_WorkerFinish ==
    /\ \E k \in Ints :
          /\ jobs[k].st = "running"
          /\ LET a == jobs[k].args[1]
             IN  outqueue' = Append(outqueue,
                                    [job |-> k, res |-> fit_bg(a.dataim, a.datamask, a.n)])
          /\ jobs' = [jobs EXCEPT ![k].st = "sent"]
    /\ UNCHANGED <<inp, fit, meta, faulty, cube, data, pc, n, handling, exc, written>>

\* the result thread takes the next result; for a value it calls writeBG
Pool_HandleResult ==
    /\ handling = <<>>
    /\ outqueue # <<>>
    /\ LET m == Head(outqueue)
       IN  /\ handling' = <<m.job>>
           /\ jobs' = [jobs EXCEPT ![m.job].res = <<m.res>>]
           /\ IF m.res.ok
              THEN /\ data' = writeBG(data, m.res)
                   /\ written' = Append(written, m.res.n)
              ELSE UNCHANGED <<data, written>>
    /\ outqueue' = Tail(outqueue)
    /\ UNCHANGED <<inp, fit, meta, faulty, cube, pc, n, exc>>

\* the result thread sets the event of the job it has handled
Pool_SetEvent ==
    /\ handling # <<>>
    /\ jobs' = [jobs EXCEPT ![handling[1]].st = "ready"]
    /\ handling' = <<>>
    /\ UNCHANGED <<inp, fit, meta, faulty, cube, data, pc, n, outqueue, exc, written>>

\* lines 101-102: res = job.get() of the next job, which raises what the task raised
BG_Get ==
    /\ pc = "collect"
    /\ GetReturns(jobs[n])
    /\ IF jobs[n].res = <<>> \/ jobs[n].res[1].ok
       THEN /\ n' = n + 1
            /\ pc' = IF n + 1 < meta.n_int THEN "collect" ELSE "subtract"
            /\ exc' = exc
       ELSE /\ pc' = "raised"
            /\ exc' = jobs[n].res[1].exc
            /\ n' = n
    /\ UNCHANGED <<inp, fit, meta, faulty, cube, data, jobs, outqueue, handling, written>>

\* lines 106-119: the subtraction and the return
BG_Subtract ==
    /\ pc = "subtract"
    /\ data' = Subtracted(data)
    /\ pc' = "done"
    /\ UNCHANGED <<inp, fit, meta, faulty, cube, n, jobs, outqueue, handling, exc, written>>

BGNext ==
    \/ BG_Start \/ BG_SerialStep \/ BG_Submit \/ BG_Close \/ BG_Get \/ BG_Subtract
    \/ Pool_WorkerStart \/ Pool_WorkerFinish \/ Pool_HandleResult \/ Pool_SetEvent

\* A call of BGsubtraction on a cube; no direct call of the fits is pending.
Init == BGInit /\ FitIdle

Spec == Init /\ [][BGNext]_vars

\* A direct call of fitbg or fitbg2; BGsubtraction is not running.
InitFit == FitInit /\ BGIdle

SpecFit == InitFit /\ [][FitNext]_vars

---------------------------------------------------------------------------
(* Properties of BGsubtraction, checked under Spec *)

\* the integrations BGsubtraction fits
FitRange == {k \in Ints : meta.int_start <= k /\ k < meta.n_int}

\* what inst.fit_bg gives for integration k of the cube passed in
FitOf(k) == fit_bg(cube.subdata[k], cube.submask[k], k)

WrittenSet == {written[i] : i \in 1..Len(written)}

\* the serial loop from integration k on, then the subtraction
RECURSIVE SerialFrom(_, _)
SerialFrom(dat, k) ==
    IF k >= meta.n_int THEN [ok |-> TRUE, dat |-> Subtracted(dat)]
    ELSE LET r == SerialPass(dat, k)
         IN  IF r.ok THEN SerialFrom(r.dat, k + 1) ELSE [ok |-> FALSE, dat |-> r.dat]

\* the data object the ncpu == 1 path returns for the cube passed in
SerialResult ==
    SerialFrom([subdata |-> cube.subdata, submask |-> cube.submask,
                subbg |-> [k \in Ints |-> Zeros(NX, NY)]], meta.int_start)

\* C1: with ncpu > 1, whatever the order in which the jobs end and the
\* callbacks run, every slot written holds the surface and the mask fitted to
\* the frame of its own index, and on return every integration of the range is
\* written and the data object equals the one the serial path returns
C1_IndexFidelity ==
    meta.ncpu > 1 =>
        /\ \A k \in WrittenSet :
              /\ data.subbg[k] = FitOf(k).bg
              /\ data.submask[k] = FitOf(k).mask
        /\ pc = "done" =>
              /\ FitRange \subseteq WrittenSet
              /\ SerialResult.ok
              /\ data = SerialResult.dat

\* BGsubtraction with ncpu > 1 has returned after the callbacks ran in another
\* order than the integrations, for frames that differ
C1_Witness ==
    /\ meta.ncpu > 1 /\ pc = "done"
    /\ written = <<1, 0, 2>>
    /\ cube.subdata[0] # cube.subdata[1]
    /\ data.subbg[0] # data.subbg[1]

\* C2: with ncpu > 1 every job is submitted before the first job.get(), and the
\* subtraction starts only when every job is ready and its result written
C2_SubmitAllThenCollectAllThenSubtract ==
    meta.ncpu > 1 =>
        /\ pc = "collect" => \A k \in FitRange : jobs[k].st # "none"
        /\ pc \in {"subtract", "done"} =>
              \A k \in FitRange : jobs[k].st = "ready" /\ k \in WrittenSet

\* the subtraction is about to start after results were written out of order
C2_Witness ==
    /\ meta.ncpu > 1 /\ pc = "subtract"
    /\ Len(written) = NInt /\ written[1] # 0

\* C3: with ncpu > 1, when a job raises BGsubtraction raises a failure that
\* names the integration of a failed job, and it never returns normally
C3_FailureNamesIntegration ==
    meta.ncpu > 1 =>
        /\ pc = "raised" => exc.n # <<>> /\ exc.n[1] \in FitRange /\ ~FitOf(exc.n[1]).ok
        /\ pc = "done" => \A k \in FitRange : FitOf(k).ok

\* BGsubtraction has ended and nothing of the pool is left to run
Terminated ==
    /\ pc \in {"done", "raised"}
    /\ outqueue = <<>> /\ handling = <<>>
    /\ \A k \in Ints : jobs[k].st \in {"none", "ready"}

\* C4: when the fit of integration k fails, for ncpu == 1 and ncpu > 1, every
\* other integration whose fit succeeds is written back and subtracted, and the
\* failure names k
C4_FailureAbortsOnlyItsFrame ==
    (Terminated /\ \E k \in FitRange : ~FitOf(k).ok) =>
        /\ \A m \in FitRange :
              FitOf(m).ok =>
                 /\ m \in WrittenSet
                 /\ data.subbg[m] = FitOf(m).bg
                 /\ data.submask[m] = FitOf(m).mask
                 /\ \A r \in DOMAIN data.subdata[m] : \A c \in DOMAIN data.subdata[m][r] :
                       data.subdata[m][r][c]
                          = RatSub(cube.subdata[m][r][c], FitOf(m).bg[r][c])
        /\ exc.n # <<>> /\ exc.n[1] \in FitRange /\ ~FitOf(exc.n[1]).ok

---------------------------------------------------------------------------
(* Properties of fitbg and fitbg2, checked under SpecFit *)

\* the arrays of the call in the orientation the fit works in
WorkData == RotIn(inp.dataim, inp.isrotate)
WorkMask == RotIn(inp.mask, inp.isrotate)
WorkBgMask == RotIn(inp.bgmask, inp.isrotate)

InContract ==
    LET ny == NRows(WorkData)
        nx == NCols(WorkData)
        x1 == Broadcast(inp.x1, ny)
        x2 == Broadcast(inp.x2, ny)
    IN  \A r \in 0..(ny - 1) : 0 <= x1[r] /\ x1[r] <= x2[r] /\ x2[r] < nx

AllCells(f, q) == \A r \in DOMAIN f : \A c \in DOMAIN f[r] : f[r][c] = q

\* q is the median of the values val[p] of the pixels p of P: the mean of the
\* two middle values of the sorted list (one value twice when |P| is odd)
IsMedianOf(q, P, val) ==
    LET cnt        == Cardinality(P)
        Below(v) == Cardinality({p \in P : val[p[1]][p[2]] < v})
        UpTo(v)  == Cardinality({p \in P : val[p[1]][p[2]] <= v})
        At(k)    == {val[p[1]][p[2]] : p \in {t \in P :
                        Below(val[t[1]][t[2]]) < k /\ k <= UpTo(val[t[1]][t[2]])}}
    IN  IF cnt = 0 THEN IsNaN(q)
        ELSE \E lo \in At((cnt + 1) \div 2), hi \in At(cnt \div 2 + 1) :
                ~IsNaN(q) /\ q[1] * 2 = (lo + hi) * q[2]

\* C5: fitbg called with deg = None returns normally, the surface zero at every
\* pixel and the mask equal to the mask passed in
C5_NoneDegreeGivesZeroSurface ==
    (inp.fn = "fitbg" /\ inp.deg = <<>> /\ fit.pc = "done")
        => /\ fit.ret = "ok"
           /\ AllCells(fit.bg, RatInt(0))
           /\ fit.mask = inp.mask

\* C6 as stated: with boundaries in contract and deg < 0, every cell of the
\* surface is the median of the good pixels outside the region of their own
\* row, and the mask is the one passed in
C6_MedianOfOwnRowRegions ==
    (inp.fn = "fitbg" /\ inp.deg # <<>> /\ inp.deg[1] < 0 /\ InContract
     /\ fit.pc = "done")
        => LET ny == NRows(WorkData)
               x1 == Broadcast(inp.x1, ny)
               x2 == Broadcast(inp.x2, ny)
               P  == {p \in Pixels(ny, NCols(WorkData)) :
                        /\ WorkMask[p[1]][p[2]]
                        /\ (p[2] < x1[p[1]] \/ p[2] > x2[p[1]])}
           IN  /\ fit.ret = "ok"
               /\ \E q \in {fit.bg[0][0]} :
                     AllCells(fit.bg, q) /\ IsMedianOf(q, P, WorkData)
               /\ fit.mask = inp.mask

\* C6 amended: the region of the first row, x1[0]..x2[0], is applied to every
\* row; the surface is NaN when no good pixel lies outside it
C6_MedianOfFirstRowRegion ==
    (inp.fn = "fitbg" /\ inp.deg # <<>> /\ inp.deg[1] < 0 /\ InContract
     /\ fit.pc = "done")
        => LET ny == NRows(WorkData)
               x1 == Broadcast(inp.x1, ny)
               x2 == Broadcast(inp.x2, ny)
               P  == {p \in Pixels(ny, NCols(WorkData)) :
                        /\ WorkMask[p[1]][p[2]]
                        /\ (p[2] < x1[0] \/ p[2] > x2[0])}
           IN  /\ fit.ret = "ok"
               /\ \E q \in {fit.bg[0][0]} :
                     AllCells(fit.bg, q) /\ IsMedianOf(q, P, WorkData)
               /\ fit.mask = inp.mask
               /\ (inp = MedianScenario => AllCells(fit.bg, RatInt(10)))

\* a degree -1 call has returned for per-row boundaries that differ between
\* rows and a frame that is not constant, and for the 10, 10, 10, 90 example
C6_Witness ==
    /\ inp.fn = "fitbg" /\ inp.deg = <<-1>> /\ InContract /\ fit.pc = "done"
    /\ \/ inp = MedianScenario
       \/ /\ ~inp.x1.scalar /\ inp.x2.v[0] # inp.x2.v[1]
          /\ ~AllCells(fit.bg, RatInt(0))
          /\ inp.isrotate = 1

\* C7 as stated: the scenario ends with mask[2,1] bad and the surface 100 at
\* every pixel
C7_OutlierRejected ==
    (inp = OutlierScenario /\ fit.pc = "done")
        => /\ fit.ret = "ok"
           /\ fit.mask[2][1] = FALSE
           /\ AllCells(fit.bg, RatInt(100))

\* C7 amended: the outlier is 750/360 spreads from the row mean 250, below the
\* threshold 3, so nothing is rejected: the mask is unchanged, row 2 of the
\* surface is 250 and every other row 100
C7_OutlierKept ==
    (inp = OutlierScenario /\ fit.pc = "done")
        => /\ fit.ret = "ok"
           /\ fit.mask = inp.mask
           /\ \A r \in 0..4 : \A c \in 0..9 :
                 fit.bg[r][c] = IF r = 2 THEN RatInt(250) ELSE RatInt(100)

C7_Witness == inp = OutlierScenario /\ fit.pc = "done" /\ fit.ret = "ok"

Max(a, b) == IF a > b THEN a ELSE b

\* C8 as stated: a row's rejection loop makes at most as many passes as the
\* row has candidate columns
C8_PassesAtMostCandidates == fit.iters <= Len(fit.xvals)

\* C8 amended: at most as many passes as candidate columns, and one pass for
\* a row without candidate columns; while the loop runs the bound is not yet
\* used up, so the loop ends
C8_PassesAtMostCandidatesOrOne ==
    /\ fit.iters <= Max(1, Len(fit.xvals))
    /\ fit.pc = "loop" => fit.iters < Max(1, Len(fit.xvals))

\* a loop has ended after rejecting down to its last candidate, one has ended
\* on a row whose candidates are all masked
C8_Witness ==
    /\ fit.pc = "rowend"
    /\ \/ Len(fit.xvals) >= 3 /\ fit.iters = Len(fit.xvals)
       \/ Len(fit.xvals) >= 1 /\ Len(fit.goodxvals) = 0

\* the array a rejection clears pixels of
Rejectable(f) == IF inp.fn = "fitbg" THEN f.mask ELSE f.bgmask

\* the good candidate columns of the current row
GoodCandidates(f) ==
    {c \in 0..(NCols(f.dataim) - 1) :
        (\E i \in 1..Len(f.xvals) : f.xvals[i] = c) /\ Rejectable(f)[f.j][c]}

\* column c of the current row lies outside the signal region the call was given
IsBackgroundColumn(c) ==
    IF inp.fn = "fitbg"
    THEN c < fit.x1[fit.j] \/ c > fit.x2[fit.j]
    ELSE WorkBgMask[fit.j][c]

\* C9: a pass of the rejection loop either leaves the array alone and ends the
\* loop, or clears exactly one pixel and goes on: a good candidate of the
\* current row, outside the signal region, whose residual from the fit of this
\* pass is the largest; the number of good candidates drops by exactly one.
\* Between passes nothing changes
C9_OnlyWorstCandidateCleared ==
    [][/\ fit.pc \in {"row", "rowend"} => Rejectable(fit') = Rejectable(fit)
       /\ fit.pc = "loop" =>
            \/ /\ Rejectable(fit') = Rejectable(fit)
               /\ fit'.pc # "loop"
            \/ /\ fit'.pc = "loop"
               /\ \E c \in GoodCandidates(fit) :
                     LET p      == fit'.coeffs[1]
                         Res(x) == Abs(p.den * fit.dataim[fit.j][x] - (p.a * x + p.b))
                     IN  /\ Rejectable(fit') = [Rejectable(fit) EXCEPT ![fit.j][c] = FALSE]
                         /\ IsBackgroundColumn(c)
                         /\ \A x \in GoodCandidates(fit) : Res(x) <= Res(c)
               /\ Cardinality(GoodCandidates(fit')) = Cardinality(GoodCandidates(fit)) - 1
      ]_vars

\* two pixels of the second row have been rejected
C9_Witness ==
    /\ fit.pc = "loop" /\ fit.j = 1 /\ fit.iters = 2
    /\ Cardinality(GoodCandidates(fit)) = Len(fit.xvals) - 2

\* C10: when a row of fitbg ends with no good candidate and a fit has succeeded
\* before, the row of the surface is that last fitted polynomial at every column
C10_EmptyRowReusesLastFit ==
    (/\ inp.fn = "fitbg" /\ fit.pc \in {"row", "ret"} /\ fit.j >= 1
     /\ Len(fit.goodxvals) = 0 /\ fit.coeffs # <<>>)
        => \A c \in 0..(NCols(fit.dataim) - 1) :
              fit.bg[fit.j - 1][c] = polyval(fit.coeffs[1], c)

\* the pass about to run reaches the spread statistic: the candidate columns
\* index the row and at least one of them is good
PassComputesSpread(f) ==
    /\ \A i \in 1..Len(f.xvals) : f.xvals[i] < NCols(f.dataim)
    /\ GoodCandidates(f) # {}

\* the spread of the residuals of the good candidates of the current row is
\* exactly zero: for fitbg the mean absolute first difference (every two
\* neighbours equal), for fitbg2 the standard deviation of the residuals
\* other than the worst (all of them equal)
SpreadIsZero(f) ==
    /\ PassComputesSpread(f)
    /\ LET r == RowResiduals(f, Rejectable(f))
           L == Len(r)
       IN  /\ L >= 2
           /\ IF inp.fn = "fitbg"
              THEN \A i \in 1..(L - 1) : r[i + 1] = r[i]
              ELSE \A i, k \in (1..L) \ {ArgMaxAbs(r)} : r[i] = r[k]

\* the pass ends the loop and marks no pixel bad
PassExitsUnchanged ==
    /\ Rejectable(fit') = Rejectable(fit)
    /\ fit'.nobadpixels
    /\ fit'.pc = "rowend"

\* C11 as stated: a pass of the rejection loop of fitbg or fitbg2 whose spread
\* is exactly zero marks no pixel bad and ends the loop, whatever the threshold
C11_ZeroSpreadNeverRejects ==
    [][(fit.pc = "loop" /\ SpreadIsZero(fit)) => PassExitsUnchanged]_vars

\* C11 amended: the zero spread is replaced by infinity, so every normalised
\* residual is 0; with a threshold >= 0 the pass marks no pixel bad and ends
\* the loop, with a negative threshold it marks one good candidate of the row
\* bad and the loop goes on
C11_ZeroSpreadRejectsOnlyBelowZero ==
    [][(fit.pc = "loop" /\ SpreadIsZero(fit)) =>
          IF inp.threshold >= 0
          THEN PassExitsUnchanged
          ELSE /\ fit'.pc = "loop"
               /\ ~fit'.nobadpixels
               /\ \E c \in GoodCandidates(fit) :
                     Rejectable(fit') = [Rejectable(fit) EXCEPT ![fit.j][c] = FALSE]
      ]_vars

\* a loop with a threshold >= 0 has rejected a pixel and then ended on a pass
\* whose spread was zero (the pass left the array as it found it)
C11_Witness ==
    /\ fit.pc = "rowend" /\ fit.iters >= 2 /\ inp.threshold >= 0
    /\ SpreadIsZero(fit)

\* what a step of a call of fitbg2 does to the arrays: entering rotates them
\* into the working orientation; afterwards the data and the primary mask
\* never change; a pass that goes on to another pass is a rejection and clears
\* exactly one pixel of bgmask, a set one of the current row, and every other
\* step leaves bgmask alone; returning hands back the surface and bgmask in
\* the orientation and shape of the caller's arrays, the primary mask as passed
Fitbg2_FrameEffect ==
    /\ fit.pc = "call" =>
          fit'.dataim = WorkData /\ fit'.mask = WorkMask /\ fit'.bgmask = WorkBgMask
    /\ fit.pc \in {"row", "loop", "rowend"} =>
          /\ fit'.dataim = fit.dataim
          /\ fit'.mask = fit.mask
          /\ IF fit.pc = "loop" /\ fit'.pc = "loop"
             THEN \E c \in DOMAIN fit.bgmask[fit.j] :
                     /\ fit.bgmask[fit.j][c]
                     /\ fit'.bgmask = [fit.bgmask EXCEPT ![fit.j][c] = FALSE]
             ELSE fit'.bgmask = fit.bgmask
    /\ (fit.pc = "ret" /\ fit'.ret = "ok") =>
          /\ fit'.dataim = WorkData
          /\ fit'.mask = inp.mask
          /\ RotIn(fit'.bg, inp.isrotate) = fit.bg
          /\ RotIn(fit'.bgmask, inp.isrotate) = fit.bgmask
          /\ NRows(fit'.bg) = NRows(inp.dataim) /\ NCols(fit'.bg) = NCols(inp.dataim)
          /\ \A r \in DOMAIN inp.bgmask : \A c \in DOMAIN inp.bgmask[r] :
                fit'.bgmask[r][c] => inp.bgmask[r][c]

\* C12 as stated: for every input and every orientation fitbg2 leaves the
\* primary mask and the data unchanged, each rejection clears exactly one
\* pixel of bgmask, and the call ends by returning the surface and the updated
\* bgmask in the caller's orientation
C12_Fitbg2ReturnsWithPrimaryMaskIntact ==
    [][inp.fn = "fitbg2" =>
          /\ Fitbg2_FrameEffect
          /\ fit'.pc = "done" => fit'.ret = "ok"
      ]_vars

\* the part of C12 that holds of every call: the effect on the arrays, and the
\* orientation of what is returned whenever the call returns
Fitbg2_PrimaryMaskIntact == [][inp.fn = "fitbg2" => Fitbg2_FrameEffect]_vars

=============================================================================
